---------------------------- MODULE Spec2Model ----------------------------
(***************************************************************************)
(* Model of the ingestion pipeline of real-estate-tracker: the crawler     *)
(* (crawler.ts: season resolution, download, CSV parsing, normalisation,   *)
(* per-city and whole-catalog orchestration) and the persistence module    *)
(* (database.ts: initDatabase, insertTransaction, insertTransactionsBatch).*)
(*                                                                         *)
(* Strings are sequences of one-character tokens.  TLC's lexer takes ASCII *)
(* only, so each CJK character of the source is written as an ASCII token  *)
(* (its romanisation) and each CSV header as an ASCII column name; the     *)
(* comment beside each definition gives the source text it stands for.     *)
(***************************************************************************)
EXTENDS Integers, Sequences, FiniteSets, TLC

(***************************************************************************)
(* Characters and strings                                                  *)
(***************************************************************************)
DigitChars == <<"0", "1", "2", "3", "4", "5", "6", "7", "8", "9">>

IsDigit(c) == \E i \in 1..10 : DigitChars[i] = c

DigitVal(c) == (CHOOSE i \in 1..10 : DigitChars[i] = c) - 1

\* the empty string ''; undefined cells are read through `|| ''` everywhere
Empty == <<>>

\* JavaScript truthiness of a string
Truthy(s) == s # Empty

\* a || b on strings
OrElse(a, b) == IF Truthy(a) THEN a ELSE b

\* String.prototype.startsWith
StartsWith(s, p) == Len(p) <= Len(s) /\ SubSeq(s, 1, Len(p)) = p

RECURSIVE ParseDigits(_)
\* the number a (possibly empty) digit string denotes
ParseDigits(s) ==
    IF s = <<>> THEN 0
    ELSE 10 * ParseDigits(SubSeq(s, 1, Len(s) - 1)) + DigitVal(s[Len(s)])

RECURSIVE ToDigits(_)
\* `${n}` for a natural number n
ToDigits(n) ==
    IF n < 10 THEN <<DigitChars[n + 1]>>
    ELSE ToDigits(n \div 10) \o <<DigitChars[(n % 10) + 1]>>

IsSpace(c) == c = " "

RECURSIVE TrimLeft(_)
TrimLeft(s) == IF s # <<>> /\ IsSpace(s[1]) THEN TrimLeft(Tail(s)) ELSE s

RECURSIVE TrimRight(_)
TrimRight(s) ==
    IF s # <<>> /\ IsSpace(s[Len(s)]) THEN TrimRight(SubSeq(s, 1, Len(s) - 1)) ELSE s

\* String.prototype.trim
Trim(s) == TrimRight(TrimLeft(s))

RECURSIVE DigitPrefix(_)
\* the longest prefix of s made of digits
DigitPrefix(s) ==
    IF s # <<>> /\ IsDigit(s[1]) THEN <<s[1]>> \o DigitPrefix(Tail(s)) ELSE <<>>

\* parseInt(s): leading white space, an optional sign, then the longest digit
\* prefix; NaN when there is no digit.  The result is [nan, val].
parseInt(s) ==
    LET t    == TrimLeft(s)
        neg  == t # <<>> /\ t[1] = "-"
        body == IF t # <<>> /\ t[1] \in {"-", "+"} THEN Tail(t) ELSE t
        ds   == DigitPrefix(body)
    IN  IF ds = <<>> THEN [nan |-> TRUE, val |-> 0]
        ELSE [nan |-> FALSE, val |-> IF neg THEN 0 - ParseDigits(ds) ELSE ParseDigits(ds)]

\* parseInt(s) || 0 : NaN and 0 are falsy
OrZero(p) == IF p.nan THEN 0 ELSE p.val

(***************************************************************************)
(* convertDate                                                             *)
(***************************************************************************)
RocOffset == 1911
MinYear == 1911
MaxYear == 2100

\* rocDate.replace(/\D/g, '')
StripNonDigits(s) == SelectSeq(s, IsDigit)

NeverGregorian(d) == FALSE

\* /^(19|20)/.test(digits)
GregorianPrefix(d) ==
    Len(d) >= 2 /\ (SubSeq(d, 1, 2) = <<"1", "9">> \/ SubSeq(d, 1, 2) = <<"2", "0">>)

\* a conversion by fixed positions, without validation: three characters
\* of local year, two of month, two of day
convertDateFixed(rocDate) ==
    IF ~Truthy(rocDate) \/ Len(rocDate) < 5 THEN Empty
    ELSE ToDigits(OrZero(parseInt(SubSeq(rocDate, 1, 3))) + RocOffset)
         \o <<"-">> \o SubSeq(rocDate, 4, 5)
         \o <<"-">> \o OrElse(SubSeq(rocDate, 6, IF Len(rocDate) < 7 THEN Len(rocDate) ELSE 7),
                              <<"0", "1">>)

convertDate(rocDate) ==
    LET digits == StripNonDigits(rocDate)
        greg   == Len(digits) = 8 /\ GregorianPrefix(digits)
        yearLen == Len(digits) - 4
        year   == IF greg THEN ParseDigits(SubSeq(digits, 1, 4))
                  ELSE ParseDigits(SubSeq(digits, 1, yearLen)) + RocOffset
        month  == IF greg THEN SubSeq(digits, 5, 6)
                  ELSE SubSeq(digits, yearLen + 1, yearLen + 2)
        day    == IF greg THEN SubSeq(digits, 7, 8)
                  ELSE SubSeq(digits, yearLen + 3, yearLen + 4)
    IN  IF ~Truthy(rocDate) THEN Empty
        ELSE IF Len(digits) < 5 THEN Empty
        ELSE IF year = 0 \/ Len(month) # 2 \/ Len(day) # 2 THEN Empty
        ELSE IF year < MinYear \/ year > MaxYear THEN Empty
        ELSE IF ParseDigits(month) < 1 \/ ParseDigits(month) > 12 THEN Empty
        ELSE IF ParseDigits(day) < 1 \/ ParseDigits(day) > 31 THEN Empty
        ELSE ToDigits(year) \o <<"-">> \o month \o <<"-">> \o day

(***************************************************************************)
(* Raw rows and getDistrict                                                *)
(***************************************************************************)
\* CSV headers read by crawlCity and getDistrict
ColDistrict  == "xiangzhenshiqu"        \* '鄉鎮市區'
ColLocation  == "tudiweizhi"            \* '土地位置建物門牌'
ColLocation2 == "tudiquduanweizhi"      \* '土地區段位置或建物區門牌'
ColDate      == "jiaoyinianyueri"       \* '交易年月日'
ColPrice     == "zongjiayuan"           \* '總價元'
ColPrice2    == "zongjiayuan_paren"     \* '總價(元)'
ColTarget    == "jiaoyibiaodi"          \* '交易標的'
ColLand      == "tudimianji"            \* '土地移轉總面積平方公尺'
ColLand2     == "tudimianji_paren"      \* '土地移轉總面積(平方公尺)'
ColBuilding  == "jianwumianji"          \* '建物移轉總面積平方公尺'
ColBuilding2 == "jianwumianji_paren"    \* '建物移轉總面積(平方公尺)'
ColUnit      == "danjiayuan"            \* '單價元平方公尺'
ColUnit2     == "danjiayuan_paren"      \* '單價(元/平方公尺)'
ColFloor     == "yizhuancengci"         \* '移轉層次'
ColTotalFloor == "zongloucengshu"       \* '總樓層數'
ColType      == "jianwuxingtai"         \* '建物型態'
ColUse       == "zhuyaoyongtu"          \* '主要用途'
ColMaterial  == "zhuyaojiancai"         \* '主要建材'
ColBuildYear == "jianzhuwanchengnianyue" \* '建築完成年月'
ColParking   == "cheweileibie"          \* '車位類別'
ColParkingPrice  == "cheweizongjiayuan"        \* '車位總價元'
ColParkingPrice2 == "cheweizongjiayuan_paren"  \* '車位總價(元)'
ColNote      == "beizhu"                \* '備註'

\* row[col] || '' : an absent column reads as undefined, which is falsy
Get(row, col) == IF col \in DOMAIN row THEN row[col] ELSE Empty

\* the headers under which the map callback of crawlCity looks each field
\* up, in the order of its || chain (the district is found by getDistrict)
Headers ==
    [ transaction_type |-> <<ColTarget>>,
      address          |-> <<ColLocation, ColLocation2>>,
      land_area        |-> <<ColLand, ColLand2>>,
      building_area    |-> <<ColBuilding, ColBuilding2>>,
      floor            |-> <<ColFloor>>,
      total_floor      |-> <<ColTotalFloor>>,
      building_type    |-> <<ColType>>,
      main_use         |-> <<ColUse>>,
      construction     |-> <<ColMaterial>>,
      build_year       |-> <<ColBuildYear>>,
      transaction_date |-> <<ColDate>>,
      total_price      |-> <<ColPrice, ColPrice2>>,
      unit_price       |-> <<ColUnit, ColUnit2>>,
      parking_type     |-> <<ColParking>>,
      parking_price    |-> <<ColParkingPrice, ColParkingPrice2>>,
      note             |-> <<ColNote>> ]

\* row[a] || row[b] || '' : the first of the headers with a truthy value
Lookup(row, cols) ==
    LET hit == { i \in 1..Len(cols) : Truthy(Get(row, cols[i])) }
    IN  IF hit = {} THEN Empty
        ELSE Get(row, cols[CHOOSE i \in hit : \A j \in hit : i <= j])

CityChars == {"Shi", "Xian"}                     \* [市縣]
SuffixChars == {"Qu", "Shi", "Zhen", "Xiang"}    \* (區|市|鎮|鄉)

\* the least j >= from with s[j] a district suffix, 0 when there is none
FirstSuffix(s, from) ==
    IF \E j \in from..Len(s) : s[j] \in SuffixChars
    THEN CHOOSE j \in from..Len(s) :
            /\ s[j] \in SuffixChars
            /\ \A k \in from..(j - 1) : s[k] \notin SuffixChars
    ELSE 0

\* location.match(/^(.*?[市縣])(.+?(區|市|鎮|鄉))/)[2], Empty when no match
CityMatch(s) ==
    LET ok(i) == s[i] \in CityChars /\ FirstSuffix(s, i + 2) # 0
    IN  IF \E i \in 1..Len(s) : ok(i)
        THEN LET i == CHOOSE i \in 1..Len(s) : ok(i) /\ \A k \in 1..(i - 1) : ~ok(k)
             IN  SubSeq(s, i + 1, FirstSuffix(s, i + 2))
        ELSE Empty

\* location.match(/(.+?(區|市|鎮|鄉))/)[1], Empty when no match
DistrictMatch(s) ==
    IF FirstSuffix(s, 2) # 0 THEN SubSeq(s, 1, FirstSuffix(s, 2)) ELSE Empty

getDistrictLooseFirst(row) ==
    LET direct   == Trim(Get(row, ColDistrict))
        location == Trim(OrElse(Get(row, ColLocation2), Get(row, ColLocation)))
    IN  IF Truthy(direct) THEN direct
        ELSE IF ~Truthy(location) THEN Empty
        ELSE IF Truthy(DistrictMatch(location)) THEN DistrictMatch(location)
        ELSE CityMatch(location)

getDistrict(row) ==
    LET direct   == Trim(Get(row, ColDistrict))
        location == Trim(OrElse(Get(row, ColLocation2), Get(row, ColLocation)))
    IN  IF Truthy(direct) THEN direct
        ELSE IF ~Truthy(location) THEN Empty
        ELSE IF Truthy(CityMatch(location)) THEN CityMatch(location)
        ELSE DistrictMatch(location)

(***************************************************************************)
(* Season resolution                                                       *)
(***************************************************************************)
\* the quarter the current date lies in
CurrentQuarter(now) ==
    ToDigits(now.year - RocOffset) \o <<"S">> \o ToDigits(((now.month - 1) \div 3) + 1)

\* getCurrentSeason with `new Date()` = now = [year, month]
getCurrentSeason(now) ==
    LET year   == now.year - RocOffset
        season == IF now.month <= 3 THEN 4
                  ELSE IF now.month <= 6 THEN 1
                  ELSE IF now.month <= 9 THEN 2
                  ELSE 3
        actualYear == IF now.month <= 3 THEN year - 1 ELSE year
    IN  ToDigits(actualYear) \o <<"S">> \o ToDigits(season)

\* buildSeason without the upper limits
buildSeasonLoose(rocYear, quarter, now) ==
    IF rocYear < 1 \/ quarter < 1 THEN getCurrentSeason(now)
    ELSE ToDigits(rocYear) \o <<"S">> \o ToDigits(quarter)

\* buildSeason; an absent (undefined) or NaN argument is written 0, which
\* `!rocYear` / `!quarter` treat the same way
buildSeason(rocYear, quarter, now) ==
    IF rocYear = 0 \/ quarter = 0 THEN getCurrentSeason(now)
    ELSE IF rocYear < 1 \/ rocYear > 200 THEN getCurrentSeason(now)
    ELSE IF quarter < 1 \/ quarter > 4 THEN getCurrentSeason(now)
    ELSE ToDigits(rocYear) \o <<"S">> \o ToDigits(quarter)

\* const targetSeason = season || buildSeason(rocYear, quarter)
TargetSeason(season, rocYear, quarter, now) ==
    OrElse(season, buildSeason(rocYear, quarter, now))

(***************************************************************************)
(* The catalog                                                             *)
(***************************************************************************)
\* The CITIES array.  The shipped file enables the entry B only and keeps
\* the others as commented-out entries; the loop of crawlAllCities does not
\* depend on the length of the array, and the first three entries of the
\* list are taken here so that a run has several regions to go through.
CITIES ==
    << [code |-> "A", name |-> <<"Tai", "Bei", "Shi">>],      \* 臺北市
       [code |-> "B", name |-> <<"Tai", "Zhong", "Shi">>],    \* 臺中市
       [code |-> "C", name |-> <<"Ji", "Long", "Shi">>] >>    \* 基隆市

(***************************************************************************)
(* Numbers: toPin and the unit price                                       *)
(***************************************************************************)
\* A number of the source is a decimal [nan, neg, num, scale] standing for
\* (-)num / 10^scale, or NaN.  The factor 3.30579 is PinFactor / 10^5.
\* Quotients and products are taken exactly; the code takes them in
\* double precision, which gives the same rounded result unless the exact
\* value lies within a few units of the 16th digit of a rounding boundary.
PinFactor == 330579

RECURSIVE Pow10(_)
Pow10(n) == IF n = 0 THEN 1 ELSE 10 * Pow10(n - 1)

NaN == [nan |-> TRUE, neg |-> FALSE, num |-> 0, scale |-> 0]

\* the number 0 of `|| 0`
Zero == [nan |-> FALSE, neg |-> FALSE, num |-> 0, scale |-> 0]

\* parseFloat(s): leading white space, an optional sign, digits, an optional
\* point and digits; at least one digit; what follows is ignored.  (The
\* inputs of the model hold no exponent and no "Infinity".)
parseFloat(s) ==
    LET t    == TrimLeft(s)
        neg  == t # <<>> /\ t[1] = "-"
        body == IF t # <<>> /\ t[1] \in {"-", "+"} THEN Tail(t) ELSE t
        int  == DigitPrefix(body)
        rest == SubSeq(body, Len(int) + 1, Len(body))
        frac == IF rest # <<>> /\ rest[1] = "." THEN DigitPrefix(Tail(rest)) ELSE <<>>
    IN  IF int = <<>> /\ frac = <<>> THEN NaN
        ELSE [nan |-> FALSE, neg |-> neg, num |-> ParseDigits(int \o frac),
              scale |-> Len(frac)]

\* n / d rounded towards minus infinity
RoundDown(n, d) == n \div d

\* Math.round(n / d) for d > 0: the nearest integer, a half going up
RoundHalfUp(n, d) == (2 * n + d) \div (2 * d)

\* null, and a number that is not null
NullNum == [null |-> TRUE, val |-> 0]

Num(v) == [null |-> FALSE, val |-> v]

\* an argument of toPin: a string, or a number
Str(s) == [isString |-> TRUE, text |-> s, number |-> Zero]

Number(d) == [isString |-> FALSE, text |-> Empty, number |-> d]

\* toPin(sqm); the result is null or a number of hundredths of a ping:
\* Math.round(val / 3.30579 * 100) / 100
toPin(sqm) ==
    LET val == IF sqm.isString THEN parseFloat(sqm.text) ELSE sqm.number
        n   == val.num * Pow10(IF val.scale <= 7 THEN 7 - val.scale ELSE 0)
        d   == PinFactor * Pow10(IF val.scale > 7 THEN val.scale - 7 ELSE 0)
    IN  IF val.nan \/ val.neg \/ val.num = 0 THEN NullNum
        ELSE Num(RoundHalfUp(n, d))

\* Math.round(unitPrice * 3.30579); the product unitPrice * PinFactor is
\* kept as hi * 10^5 + lo
UnitToPin(unitPrice) ==
    LET a  == 33 * unitPrice
        hi == a \div 10
        lo == (a % 10) * 10000 + 579 * unitPrice
    IN  hi + RoundHalfUp(lo, 100000)

UnitPriceZero(unitPrice) == Num(UnitToPin(unitPrice))

\* unitPrice ? Math.round(unitPrice * 3.30579) : null
UnitPrice(unitPrice) ==
    IF unitPrice # 0 THEN Num(UnitToPin(unitPrice)) ELSE NullNum

\* row[a] || row[b] || 0, the argument crawlCity gives toPin
AreaArg(row, cols) ==
    IF Truthy(Lookup(row, cols)) THEN Str(Lookup(row, cols)) ELSE Number(Zero)

\* null in a column of text
Null == <<"NULL">>

\* row[a] || null
OrNull(s) == IF Truthy(s) THEN s ELSE Null

\* parseInt(...) || null : NaN and 0 are falsy
IntOrNull(p) == IF p.nan \/ p.val = 0 THEN NullNum ELSE Num(p.val)

(***************************************************************************)
(* Normalisation of one raw row (the map callback of crawlCity)            *)
(***************************************************************************)
DefaultTarget == <<"FangDi">>     \* '房地(土地+建物)'

AlwaysPrefix(district, cityName) == cityName \o district

\* district ? (district.startsWith(cityName) ? district : cityName+district) : cityName
FullDistrict(district, cityName) ==
    IF Truthy(district)
    THEN (IF StartsWith(district, cityName) THEN district ELSE cityName \o district)
    ELSE cityName

\* the object literal built for one row; it has no project_name property
Normalize(row, cityName, season) ==
    [ district         |-> FullDistrict(getDistrict(row), cityName),
      transaction_type |-> OrElse(Lookup(row, Headers.transaction_type), DefaultTarget),
      address          |-> Lookup(row, Headers.address),
      land_area        |-> toPin(AreaArg(row, Headers.land_area)),
      building_area    |-> toPin(AreaArg(row, Headers.building_area)),
      floor            |-> OrNull(Lookup(row, Headers.floor)),
      total_floor      |-> IntOrNull(parseInt(OrElse(Lookup(row, Headers.total_floor),
                                                     <<"0">>))),
      building_type    |-> OrNull(Lookup(row, Headers.building_type)),
      main_use         |-> OrNull(Lookup(row, Headers.main_use)),
      construction     |-> OrNull(Lookup(row, Headers.construction)),
      build_year       |-> OrNull(Lookup(row, Headers.build_year)),
      transaction_date |-> convertDate(Lookup(row, Headers.transaction_date)),
      total_price      |-> OrZero(parseInt(OrElse(Lookup(row, Headers.total_price),
                                                  <<"0">>))),
      unit_price       |-> UnitPrice(OrZero(parseInt(OrElse(Lookup(row, Headers.unit_price),
                                                            <<"0">>)))),
      parking_type     |-> OrNull(Lookup(row, Headers.parking_type)),
      parking_price    |-> IntOrNull(parseInt(OrElse(Lookup(row, Headers.parking_price),
                                                     <<"0">>))),
      note             |-> OrNull(Lookup(row, Headers.note)),
      source           |-> cityName \o <<"_">> \o season,
      raw_data         |-> row ]

\* the filter predicate: t.transaction_date && t.total_price > 0
IsValidNoPrice(t) == Truthy(t.transaction_date)

IsValid(t) == Truthy(t.transaction_date) /\ t.total_price > 0

\* records.map(...).filter(...)
Transactions(rows, cityName, season) ==
    SelectSeq([i \in 1..Len(rows) |-> Normalize(rows[i], cityName, season)], IsValid)

(***************************************************************************)
(* Persistence: the transactions table                                     *)
(***************************************************************************)
\* UNIQUE(district, address, transaction_date, total_price)
Key(rec) == <<rec.district, rec.address, rec.transaction_date, rec.total_price>>

\* the named parameters of the INSERT statement
BoundParams ==
    {"district", "transaction_type", "address", "project_name", "land_area",
     "building_area", "floor", "total_floor", "building_type", "main_use",
     "construction", "build_year", "transaction_date", "total_price",
     "unit_price", "parking_type", "parking_price", "note", "source", "raw_data"}

\* the table row stored for a bound record: the bound columns
RowOf(rec) == [f \in BoundParams |-> rec[f]]

NoConflict(table, rec) == FALSE

\* whether a row of the table has the record's natural key
Conflict(table, rec) == \E i \in 1..Len(table) : Key(table[i]) = Key(rec)

\* INSERT OR REPLACE: the conflicting row is deleted, the new one added
InsertOrReplace(table, rec) ==
    IF ~(BoundParams \subseteq DOMAIN rec)
    THEN [thrown |-> TRUE, table |-> table, changes |-> 0]
    ELSE [thrown |-> FALSE,
          table |-> Append(SelectSeq(table, LAMBDA r : Key(r) # Key(rec)), RowOf(rec)),
          changes |-> 1]

\* an INSERT that binds an absent parameter as NULL into a table that has no
\* UNIQUE constraint
InsertUnchecked(table, rec) ==
    [thrown |-> FALSE,
     table |-> Append(table, [f \in BoundParams |->
                                 IF f \in DOMAIN rec THEN rec[f] ELSE <<"NULL">>]),
     changes |-> 1]

\* insertTransaction: stmt.run(data) of INSERT OR IGNORE.  better-sqlite3
\* throws a RangeError when the bound object lacks a named parameter; a
\* conflict on the natural key is ignored (changes = 0).
insertTransaction(table, rec) ==
    IF ~(BoundParams \subseteq DOMAIN rec)
    THEN [thrown |-> TRUE, table |-> table, changes |-> 0]
    ELSE IF Conflict(table, rec)
    THEN [thrown |-> FALSE, table |-> table, changes |-> 0]
    ELSE [thrown |-> FALSE, table |-> Append(table, RowOf(rec)), changes |-> 1]

CountAlways(changes) == 1

\* if (result.changes > 0) inserted++
Counted(changes) == IF changes > 0 THEN 1 ELSE 0

RECURSIVE BatchLoop(_, _, _)
\* the for loop of the transaction function, from item i on; acc is
\* [thrown, table, inserted]
BatchLoop(acc, items, i) ==
    IF i > Len(items) \/ acc.thrown THEN acc
    ELSE LET r == insertTransaction(acc.table, items[i])
         IN  BatchLoop([thrown   |-> r.thrown,
                        table    |-> r.table,
                        inserted |-> acc.inserted + Counted(r.changes)],
                       items, i + 1)

NoRollback(before, res) == res

\* db.transaction(fn): commit when fn returns, roll back and rethrow when
\* it throws
Transaction(before, res) ==
    IF res.thrown THEN [thrown |-> TRUE, table |-> before, inserted |-> 0] ELSE res

\* insertTransactionsBatch(dataList) on a database whose table is `table`
insertTransactionsBatch(table, dataList) ==
    Transaction(table,
                BatchLoop([thrown |-> FALSE, table |-> table, inserted |-> 0], dataList, 1))

(***************************************************************************)
(* crawlCity after the download has resolved                               *)
(***************************************************************************)
Rethrow(res) == res

\* try { ... } catch (e) { console.error(...); return 0 }
\* caught records that the catch block ran
CatchAll(res) ==
    IF res.thrown THEN [res EXCEPT !.thrown = FALSE, !.ret = 0, !.caught = TRUE] ELSE res

\* lines 215-263 of crawlCity: parse, save the file, normalise and filter,
\* load.  rows is what parseCSV returned, saveOk whether saveCSVFile
\* succeeded; the result is [thrown, ret, table, called, batch, caught]
\* where called/batch record the call of insertTransactionsBatch.
crawlCityBody(table, rows, cityName, season, saveOk) ==
    LET transactions == Transactions(rows, cityName, season)
        res == insertTransactionsBatch(table, transactions)
    IN  IF Len(rows) = 0
        THEN [thrown |-> FALSE, ret |-> 0, table |-> table,
              called |-> FALSE, batch |-> <<>>, caught |-> FALSE]
        ELSE IF ~saveOk
        THEN [thrown |-> TRUE, ret |-> 0, table |-> table,
              called |-> FALSE, batch |-> <<>>, caught |-> FALSE]
        ELSE [thrown |-> res.thrown, ret |-> res.inserted, table |-> res.table,
              called |-> TRUE, batch |-> transactions, caught |-> FALSE]

\* crawlCity once downloadCSV has resolved with a body that parses to rows
crawlCityResolved(table, rows, cityName, season, saveOk) ==
    CatchAll(crawlCityBody(table, rows, cityName, season, saveOk))

\* crawlCity once downloadCSV has rejected, or a later call inside the try
\* block has thrown before the file was saved
crawlCityRejected(table) ==
    CatchAll([thrown |-> TRUE, ret |-> 0, table |-> table,
              called |-> FALSE, batch |-> <<>>, caught |-> FALSE])

AbortAfter(i, failed) == IF failed THEN Len(CITIES) + 1 ELSE i + 1

\* for (const city of CITIES): the index of the city taken after city i,
\* whatever crawlCity returned for it
ContinueAfter(i, failed) == i + 1

(***************************************************************************)
(* initDatabase                                                            *)
(***************************************************************************)
\* The schema of the database file: "none" (no transactions table), "old"
\* (a table created by the first schema, without the project_name column)
\* or "new".  db.exec runs CREATE TABLE IF NOT EXISTS and then the CREATE
\* INDEX statements; on an old table CREATE INDEX ... (project_name) fails
\* and db.exec throws before the ALTER TABLE is reached.  fault stands for
\* any other failure of db.exec (I/O error, locked or read-only file).
initDatabase(sch, fault) ==
    IF fault \/ sch = "old"
    THEN [thrown |-> TRUE, schema |-> sch]
    ELSE [thrown |-> FALSE, schema |-> "new"]

(***************************************************************************)
(* Inputs of the model                                                     *)
(***************************************************************************)
MaxBatch == 2

RowValid ==
    (ColDistrict :> <<"Xi", "Tun", "Qu">>) @@ (ColLocation :> <<"Lu", "1">>)
    @@ (ColDate :> <<"1", "1", "4", "0", "1", "1", "5">>)
    @@ (ColPrice :> <<"9", "0", "0">>)

\* the natural key of RowValid, every other field different
RowDup == (ColTarget :> <<"TuDi">>) @@ RowValid

RowZero == (ColPrice :> <<"0">>) @@ RowValid

RowNoDate ==
    (ColDistrict :> <<"Bei", "Qu">>) @@ (ColLocation :> <<"Lu", "2">>)
    @@ (ColPrice2 :> <<"7", "0", "0">>)

RowBadMonth == (ColDate :> <<"1", "1", "4", "1", "3", "0", "1">>) @@ RowValid

RowNegative == (ColPrice :> <<"-", "5">>) @@ RowValid

\* district from the location, price under the older header, Gregorian date
RowOther ==
    (ColLocation2 :> <<"Tai", "Zhong", "Shi", "Bei", "Qu", "Lu", "2">>)
    @@ (ColDate :> <<"2", "0", "2", "5", "/", "0", "1", "/", "1", "5">>)
    @@ (ColPrice2 :> <<"7", "0", "0">>)

\* the bodies the upstream server can answer with;
\* PX is a text the CSV parser cannot parse (a quote that is never closed)
PayloadIds == {"P0", "P1", "P2", "PX"}

\* the rows of a body that parses
Body(p) ==
    CASE p = "P0" -> <<>>
      [] p = "P1" -> <<RowValid, RowZero, RowDup>>
      [] p = "P2" -> <<RowNoDate, RowBadMonth, RowNegative>>

\* parse(content, {columns: true, ...}) of csv-parse/sync
Parse(p) ==
    IF p = "PX" THEN [thrown |-> TRUE, rows |-> <<>>]
    ELSE [thrown |-> FALSE, rows |-> Body(p)]

parseCSVUncaught(p) == Parse(p)

\* parseCSV: try { return parse(...) } catch (e) { console.error(...); return [] }
parseCSV(p) ==
    IF Parse(p).thrown THEN [thrown |-> FALSE, rows |-> <<>>] ELSE Parse(p)

\* the URLs a download can be at: the one crawlCity built, and the
\* Location targets the server can redirect to
URLs == {"u0", "u1"}

\* new Date() at the start of a run
Nows == {[year |-> 2025, month |-> 2]}

\* the arguments of crawlAllCities: cron.schedule passes none; POST /crawl
\* and the command line pass (season, year, quarter)
TriggerArgs ==
    { [season |-> Empty, rocYear |-> 0, quarter |-> 0],
      [season |-> Empty, rocYear |-> 114, quarter |-> 1],
      [season |-> Empty, rocYear |-> 300, quarter |-> 1],
      [season |-> <<"1", "1", "4", "S", "1">>, rocYear |-> 0, quarter |-> 0] }

\* records of the parameter type of insertTransaction (with project_name),
\* and one built the way crawlCity builds them (without)
WithProject(rec, name) == [f \in BoundParams |-> IF f = "project_name" THEN name ELSE rec[f]]

DirectSeason == <<"1", "1", "4", "S", "1">>

DirectRecords ==
    { WithProject(Normalize(row, CITIES[2].name, DirectSeason), Null) :
          row \in {RowValid, RowDup, RowOther} }
    \cup { Normalize(RowValid, CITIES[2].name, DirectSeason) }

Batches == UNION { [1..n -> DirectRecords] : n \in 0..MaxBatch }

(***************************************************************************)
(* Inputs of the functions called on their own                             *)
(***************************************************************************)
MaxYearLen == 4

YearChars == {"0", "1", "2", "9"}

\* the text before the month of a raw date
YearParts ==
    UNION { [1..n -> YearChars] : n \in 0..MaxYearLen }
    \cup { <<"1", "1", "4">>, <<"2", "0", "2", "5">> }

MonthParts ==
    { <<"0", "0">>, <<"0", "1">>, <<"0", "2">>, <<"0", "4">>, <<"1", "2">>, <<"1", "3">>,
      <<"1">> }

DayParts ==
    { <<"0", "0">>, <<"0", "1">>, <<"1", "5">>, <<"2", "9">>, <<"3", "0">>, <<"3", "1">>,
      <<"3", "2">>, <<"5">> }

\* written together, or with a separator between the parts
DateSeps == { Empty, <<"/">> }

\* values of the '交易年月日' column
DateInputs ==
    { y \o sep \o m \o sep \o d :
          y \in YearParts, m \in MonthParts, d \in DayParts, sep \in DateSeps }

\* a row without columns
NoCells == [c \in {} |-> Empty]

\* the ways a row can hold the column col: not at all, or with a text
Cells(col, texts) == {NoCells} \cup { col :> t : t \in texts }

\* values of '鄉鎮市區': empty, blank, a district, a district between
\* blanks, a district after the name of the city, the name of the city
DistrictTexts ==
    { Empty, <<" ", " ">>, <<"Xi", "Tun", "Qu">>, <<" ", "Bei", "Qu", " ">>,
      <<"Tai", "Zhong", "Shi", "Bei", "Qu">>, <<"Tai", "Zhong", "Shi">> }

\* values of '土地區段位置或建物區門牌': city and district, a district only,
\* no district, a district suffix in first place, a township
Location2Texts ==
    { <<"Tai", "Zhong", "Shi", "Bei", "Qu", "Lu", "2">>, <<"Bei", "Qu", "Lu">>,
      <<"Lu", "2">>, <<"Qu", "Lu">>, <<"Zhang", "Hua", "Xian", "Lu", "Gang", "Zhen">> }

\* values of '土地位置建物門牌'
LocationTexts == { <<"Tai", "Bei", "Shi", "Da", "An", "Qu", "Lu">>, <<"Lu", "1">> }

\* rows that differ in the columns getDistrict reads
DistrictRows ==
    { d @@ l2 @@ l @@ RowValid :
          d \in Cells(ColDistrict, DistrictTexts),
          l2 \in Cells(ColLocation2, Location2Texts),
          l \in {[c \in {ColLocation} |-> t] : t \in LocationTexts \cup {Empty}} }

\* values of '單價元平方公尺' and '單價(元/平方公尺)'
UnitTexts ==
    { Empty, <<"0">>, <<"0", "0">>, <<"1">>, <<"3">>, <<"-", "5">>, <<" ", "1", "2">>,
      <<"a", "b", "c">>, <<"5", "0", "0", "0", "0">>, <<"1", "0", "0", "0", "0", "0">>,
      <<"1", "5", "1", "2", "6", "0">>, <<"2", "9", "9", "9", "9", "9">> }

Unit2Texts == { <<"1", "0", "0", "0", "0", "0">>, <<"7">> }

\* rows that differ in the unit price columns
PriceRows ==
    { u @@ u2 @@ RowValid :
          u \in Cells(ColUnit, UnitTexts), u2 \in Cells(ColUnit2, Unit2Texts) }

\* the parts of an area text: white space, a sign, digits, a point and
\* digits, a unit
PinLeads == { Empty, <<" ">> }

PinSigns == { Empty, <<"-">>, <<"+">> }

PinInts == { Empty, <<"0">>, <<"3">>, <<"3", "3">>, <<"9", "9">> }

PinFracs ==
    { Empty, <<".">>, <<".", "0">>, <<".", "5">>, <<".", "0", "5">>,
      <<".", "0", "5", "7", "9">>, <<".", "0", "1", "6", "5">>,
      <<".", "0", "1", "6", "6">>, <<".", "3", "0", "5", "8">> }

PinTrails == { Empty, <<"m">> }

\* arguments of toPin: the texts of an area column, and numbers
PinInputs ==
    { Str(l \o sg \o i \o f \o t) :
          l \in PinLeads, sg \in PinSigns, i \in PinInts, f \in PinFracs, t \in PinTrails }
    \cup { Number(Zero), Number(NaN),
           Number([nan |-> FALSE, neg |-> FALSE, num |-> 330579, scale |-> 4]),
           Number([nan |-> FALSE, neg |-> TRUE, num |-> 5, scale |-> 1]) }

\* new Date() when crawlAllCities is called
SeasonNows == { [year |-> y, month |-> m] : y \in {2024, 2025, 2026}, m \in 1..12 }

\* the season argument: absent, a period, and texts that are no period
SeasonTexts ==
    { Empty, <<"1", "1", "4", "S", "1">>, <<"1", "1", "4", "S", "5">>, <<"a", "b", "c">> }

\* the arguments (season, rocYear, quarter) of crawlAllCities
SeasonArgs ==
    { [season |-> t, rocYear |-> y, quarter |-> q] :
          t \in SeasonTexts, y \in {-1, 0, 1, 114, 200, 201}, q \in {-1, 0, 1, 4, 5} }

\* the redirects of one download that are counted
MaxHops == 2

\* res.statusCode
Statuses ==
    {200, 201, 202, 204, 206, 301, 302, 303, 304, 307, 308, 400, 403, 404, 500, 503}

\* res.headers.location: absent, or a URL
NoLocation == "none"

\* the bytes of a response body
FetchBodies == { <<>>, <<"b1">>, <<"b2">>, <<"b1", "b2">> }

\* rows that differ in the columns of the building and of the parking space
DetailRows ==
    { f @@ t @@ k @@ p @@ p2 @@ n @@ RowValid :
          f  \in Cells(ColFloor, { <<"San", "Ceng">> }),
          t  \in Cells(ColTotalFloor, { <<"0">>, <<"1", "2">> }),
          k  \in Cells(ColType, { Empty, <<"Da", "Lou">> }),
          p  \in Cells(ColParkingPrice, { <<"0">>, <<"5", "0", "0">> }),
          p2 \in Cells(ColParkingPrice2, { <<"6", "0", "0">> }),
          n  \in Cells(ColNote, { <<"Qin", "You">> }) }

NormInputs ==
    { [row |-> row, cityName |-> CITIES[i].name] :
          row \in DistrictRows, i \in 1..Len(CITIES) }
    \cup { [row |-> row, cityName |-> CITIES[2].name] : row \in PriceRows \cup DetailRows }

(***************************************************************************)
(* State                                                                   *)
(***************************************************************************)
\* the invocations of crawlAllCities the model follows
Runs == {1, 2}

VARIABLES
    schema,     \* the schema of the database file
    table,      \* the rows of the transactions table, in rowid order
    lastLoad,   \* the last direct call of insertTransactionsBatch and its outcome
    run,        \* per invocation of crawlAllCities: its position and locals
    calc        \* a call of one function on its own: its argument and result

vars == <<schema, table, lastLoad, run, calc>>

NoLoad == [called |-> FALSE, before |-> <<>>, batch |-> <<>>, thrown |-> FALSE, ret |-> 0]

\* pc: "idle" (not called), "fetching" (awaiting downloadCSV), "sleeping"
\* (awaiting the 1000 ms timer), "done" (returned total), "failed" (rejected).
\* log, calls, expected, passed and wrote record what happened; the code
\* does not read them.
\* no function is being called on its own
NoCalc == [fn |-> "none", done |-> FALSE]

IdleRun ==
    [ pc |-> "idle", season |-> Empty, idx |-> 0, next |-> 0, url |-> "u0",
      total |-> 0, log |-> <<>>, calls |-> <<>>, expected |-> 0,
      passed |-> <<>>, wrote |-> FALSE, added |-> 0,
      last |-> [ret |-> 0, called |-> FALSE, caught |-> FALSE] ]

Init ==
    /\ schema \in {"none", "old", "new"}
    /\ table = <<>>
    /\ lastLoad = NoLoad
    /\ run = [r \in Runs |-> IdleRun]
    /\ calc = NoCalc

Active(r) == run[r].pc \in {"fetching", "sleeping"}

\* the number of records of a batch the loader is expected to persist: the
\* natural keys of the batch that the table does not hold yet
NewKeys(tbl, batch) ==
    Cardinality({ Key(batch[i]) : i \in 1..Len(batch) }
                \ { Key(tbl[i]) : i \in 1..Len(tbl) })

(***************************************************************************)
(* Actions                                                                 *)
(***************************************************************************)
\* index.ts: initDatabase() when the server process starts
ServerStart(fault) ==
    /\ \A r \in Runs : run[r].pc = "idle"
    /\ schema' = initDatabase(schema, fault).schema
    /\ schema' # schema
    /\ UNCHANGED <<table, lastLoad, run, calc>>

\* a call of insertTransactionsBatch(batch) on the initialised database
\* while no run is in progress; the records of finished runs are dropped
Load(batch) ==
    /\ schema = "new"
    /\ \A r \in Runs : ~Active(r)
    /\ LET res == insertTransactionsBatch(table, batch)
       IN  /\ table' = res.table
           /\ lastLoad' = [called |-> TRUE, before |-> table, batch |-> batch,
                           thrown |-> res.thrown, ret |-> res.inserted]
    /\ run' = [r \in Runs |-> IdleRun]
    /\ UNCHANGED <<schema, calc>>

\* crawlAllCities(season, rocYear, quarter) up to its first await:
\* resolve the season, initDatabase(), enter the loop and crawlCity, which
\* issues the download of the first city
Trigger(r, args, now, fault) ==
    /\ ~Active(r)
    /\ LET init   == initDatabase(schema, fault)
           target == TargetSeason(args.season, args.rocYear, args.quarter, now)
           fresh  == [IdleRun EXCEPT !.season = target]
       IN  /\ schema' = init.schema
           /\ run' = [run EXCEPT
                 ![r] = IF init.thrown THEN [fresh EXCEPT !.pc = "failed"]
                        ELSE IF Len(CITIES) = 0 THEN [fresh EXCEPT !.pc = "done"]
                        ELSE [fresh EXCEPT !.pc = "fetching", !.idx = 1,
                                           !.calls = <<CITIES[1].code>>]]
    /\ UNCHANGED <<table, calc>>

\* a run triggered while no other run is in progress
StartRun(r, args, now, fault) ==
    /\ \A o \in Runs : ~Active(o)
    /\ Trigger(r, args, now, fault)
    /\ lastLoad' = NoLoad

\* a run triggered by the cron task or by POST /crawl, whatever the other
\* invocation is doing
StartOverlapping(r, args, now, fault) ==
    /\ run[r].pc = "idle"
    /\ Trigger(r, args, now, fault)
    /\ lastLoad' = NoLoad

\* downloadCSV: a 301/302 response with a Location header; the request is
\* issued again against the target
Redirect(r, location) ==
    /\ run[r].pc = "fetching"
    /\ run' = [run EXCEPT ![r].url = location]
    /\ UNCHANGED <<schema, table, lastLoad, calc>>

\* what is kept of the latest call of crawlCity: the value returned,
\* whether insertTransactionsBatch was called and whether the catch block ran
Outcome(res) == [ret |-> res.ret, called |-> res.called, caught |-> res.caught]

\* the loop without its pause: the next city is taken at once
ReturnedNoPause(r, res, resp, claimed) ==
    /\ table' = res.table
    /\ run' = [run EXCEPT ![r] =
         [@ EXCEPT !.pc = IF res.thrown THEN "failed"
                          ELSE IF run[r].idx + 1 > Len(CITIES) THEN "done"
                          ELSE "fetching",
                   !.total = @ + res.ret,
                   !.idx = IF run[r].idx + 1 > Len(CITIES) THEN @ ELSE @ + 1,
                   !.next = run[r].idx + 1,
                   !.url = "u0",
                   !.log = Append(@, [city |-> CITIES[run[r].idx].code, resp |-> resp]),
                   !.last = Outcome(res),
                   !.added = @ + (Len(res.table) - Len(table)),
                   !.calls = IF run[r].idx + 1 > Len(CITIES) THEN @
                             ELSE Append(@, CITIES[run[r].idx + 1].code),
                   !.expected = @ + claimed,
                   !.passed = res.batch,
                   !.wrote = @ \/ res.table # table]]
    /\ UNCHANGED <<schema, lastLoad, calc>>

\* what crawlAllCities does with the outcome res of crawlCity: add the
\* returned value to the total and start the pause; a throw of crawlCity
\* rejects the run
Returned(r, res, resp, claimed) ==
    /\ table' = res.table
    /\ run' = [run EXCEPT ![r] =
         [@ EXCEPT !.pc = IF res.thrown THEN "failed" ELSE "sleeping",
                   !.total = @ + res.ret,
                   !.next = ContinueAfter(run[r].idx, resp = "fail"),
                   !.url = "u0",
                   !.log = Append(@, [city |-> CITIES[run[r].idx].code, resp |-> resp]),
                   !.last = Outcome(res),
                   !.added = @ + (Len(res.table) - Len(table)),
                   !.expected = @ + claimed,
                   !.passed = res.batch,
                   !.wrote = @ \/ res.table # table]]
    /\ UNCHANGED <<schema, lastLoad, calc>>

\* downloadCSV rejects: a status other than 200 (a redirect without a
\* Location among them), a transport error or the 30 s timeout
Reject(r) ==
    /\ run[r].pc = "fetching"
    /\ Returned(r, crawlCityRejected(table), "fail", 0)

\* downloadCSV resolves with the body p; saveOk: whether saveCSVFile succeeds
Resolve(r, p, saveOk) ==
    /\ run[r].pc = "fetching"
    /\ LET city == CITIES[run[r].idx]
           parsed == parseCSV(p)
           res  == IF parsed.thrown THEN crawlCityRejected(table)
                   ELSE crawlCityResolved(table, parsed.rows, city.name, run[r].season,
                                          saveOk)
           claimed == IF saveOk
                      THEN NewKeys(table, Transactions(parsed.rows, city.name, run[r].season))
                      ELSE 0
       IN  Returned(r, res, p, claimed)

\* the 1000 ms timer fires: the loop takes the next city, or the run
\* returns totalInserted
TimerFire(r) ==
    /\ run[r].pc = "sleeping"
    /\ run' = [run EXCEPT ![r] =
         IF run[r].next > Len(CITIES)
         THEN [@ EXCEPT !.pc = "done"]
         ELSE [@ EXCEPT !.pc = "fetching", !.idx = run[r].next,
                        !.calls = Append(@, CITIES[run[r].next].code)]]
    /\ UNCHANGED <<schema, table, lastLoad, calc>>

\* the steps of the download and of the loop of run r
Server(r, bodies) ==
    \/ \E location \in URLs : Redirect(r, location)
    \/ Reject(r)
    \/ \E p \in bodies, saveOk \in BOOLEAN : Resolve(r, p, saveOk)

Environment ==
    \/ \E fault \in BOOLEAN : ServerStart(fault)
    \/ \E batch \in Batches : Load(batch)

\* one trigger: runs follow one another
Next ==
    \/ Environment
    \/ \E args \in TriggerArgs, now \in Nows, fault \in BOOLEAN : StartRun(1, args, now, fault)
    \/ Server(1, PayloadIds)
    \/ TimerFire(1)

Spec == Init /\ [][Next]_vars

\* the event loop runs every timer that is due, and every request is
\* answered, fails or times out
FairSpec == Spec /\ WF_vars(TimerFire(1)) /\ WF_vars(Server(1, PayloadIds))

\* a first run and, once it has returned, a second one; the table is
\* filled by one load before the first run
PairNext ==
    \/ (\A r \in Runs : run[r].pc = "idle") /\ ~lastLoad.called /\ Environment
    \/ \E args \in TriggerArgs, now \in Nows, fault \in BOOLEAN :
          /\ run[1].pc = "idle"
          /\ StartRun(1, args, now, fault)
    \/ \E args \in TriggerArgs, now \in Nows, fault \in BOOLEAN :
          /\ run[1].pc = "done" /\ run[2].pc = "idle"
          /\ StartRun(2, args, now, fault)
    \/ \E r \in Runs : Server(r, {"P1", "P2"})
    \/ \E r \in Runs : TimerFire(r)

PairSpec == Init /\ [][PairNext]_vars

\* the period and the date of the triggers of two overlapping runs
ConcArgs == [season |-> Empty, rocYear |-> 114, quarter |-> 1]

ConcNow == [year |-> 2025, month |-> 5]

\* two runs in progress at the same time: their awaits (downloads, pauses)
\* interleave in any order; the table is filled by one load beforehand
ConcNext ==
    \/ (\A r \in Runs : run[r].pc = "idle") /\ ~lastLoad.called /\ Environment
    \/ \E r \in Runs, fault \in BOOLEAN : StartOverlapping(r, ConcArgs, ConcNow, fault)
    \/ \E r \in Runs : Server(r, {"P1"})
    \/ \E r \in Runs : TimerFire(r)

ConcSpec == Init /\ [][ConcNext]_vars

(***************************************************************************)
(* Functions called on their own                                           *)
(***************************************************************************)
\* the pipeline at rest
AtRest ==
    /\ schema = "none"
    /\ table = <<>>
    /\ lastLoad = NoLoad
    /\ run = [r \in Runs |-> IdleRun]

\* convertDate(row['交易年月日'] || '')
DateInit ==
    /\ AtRest
    /\ calc \in { [fn |-> "convertDate", arg |-> s, done |-> FALSE, res |-> Empty] :
                     s \in DateInputs }

ApplyConvertDate ==
    /\ calc.fn = "convertDate" /\ ~calc.done
    /\ calc' = [calc EXCEPT !.done = TRUE, !.res = convertDate(calc.arg)]
    /\ UNCHANGED <<schema, table, lastLoad, run>>

DateSpec == DateInit /\ [][ApplyConvertDate]_vars

\* the map callback of crawlCity on one row
NormInit ==
    /\ AtRest
    /\ calc \in { [fn |-> "normalize", arg |-> a, done |-> FALSE, res |-> NoCells] :
                     a \in NormInputs }

ApplyNormalize ==
    /\ calc.fn = "normalize" /\ ~calc.done
    /\ calc' = [calc EXCEPT !.done = TRUE,
                            !.res = Normalize(calc.arg.row, calc.arg.cityName, DirectSeason)]
    /\ UNCHANGED <<schema, table, lastLoad, run>>

NormSpec == NormInit /\ [][ApplyNormalize]_vars

\* getDistrict(row, cityName)
DistrictInit ==
    /\ AtRest
    /\ calc \in { [fn |-> "getDistrict", arg |-> row, done |-> FALSE, res |-> Empty] :
                     row \in DistrictRows }

ApplyGetDistrict ==
    /\ calc.fn = "getDistrict" /\ ~calc.done
    /\ calc' = [calc EXCEPT !.done = TRUE, !.res = getDistrict(calc.arg)]
    /\ UNCHANGED <<schema, table, lastLoad, run>>

DistrictSpec == DistrictInit /\ [][ApplyGetDistrict]_vars

\* toPin(sqm)
PinInit ==
    /\ AtRest
    /\ calc \in { [fn |-> "toPin", arg |-> a, done |-> FALSE, res |-> NullNum] :
                     a \in PinInputs }

ApplyToPin ==
    /\ calc.fn = "toPin" /\ ~calc.done
    /\ calc' = [calc EXCEPT !.done = TRUE, !.res = toPin(calc.arg)]
    /\ UNCHANGED <<schema, table, lastLoad, run>>

PinSpec == PinInit /\ [][ApplyToPin]_vars

\* line 272 of crawlAllCities: season || buildSeason(rocYear, quarter)
SeasonInit ==
    /\ AtRest
    /\ calc \in { [fn |-> "targetSeason", arg |-> a, now |-> n, done |-> FALSE,
                    res |-> Empty] : a \in SeasonArgs, n \in SeasonNows }

ApplyTargetSeason ==
    /\ calc.fn = "targetSeason" /\ ~calc.done
    /\ calc' = [calc EXCEPT !.done = TRUE,
                            !.res = TargetSeason(calc.arg.season, calc.arg.rocYear,
                                                 calc.arg.quarter, calc.now)]
    /\ UNCHANGED <<schema, table, lastLoad, run>>

SeasonSpec == SeasonInit /\ [][ApplyTargetSeason]_vars

\* downloadCSV(url): the request is out and the promise is pending
FetchInit ==
    /\ AtRest
    /\ calc \in { [fn |-> "downloadCSV", done |-> FALSE, url |-> u, pc |-> "pending",
                    hops |-> 0, status |-> 0, sent |-> <<>>,
                    resp |-> [status |-> 0, location |-> NoLocation],
                    body |-> <<>>, error |-> "none", errStatus |-> 0] : u \in URLs }

Fetching == calc.fn = "downloadCSV" /\ calc.pc = "pending"

\* res.statusCode === 301 || res.statusCode === 302
FollowStatus(status) == status \in {301, 302}

\* the response callback (lines 71-89): a 301 or 302 with a Location
\* header starts downloadCSV(location), whose outcome is this call's; any
\* other status than 200 rejects with `HTTP ${statusCode}`; a 200 resolves
\* with the concatenated chunks on 'end', or rejects on 'error' of the
\* response stream
\* resp is the response last received
Respond(status, location, sent, streamOk) ==
    /\ Fetching
    /\ LET got == [calc EXCEPT !.resp = [status |-> status, location |-> location]]
       IN  calc' =
             IF FollowStatus(status) /\ location # NoLocation
             THEN [got EXCEPT !.url = location,
                              !.hops = IF calc.hops < MaxHops THEN calc.hops + 1 ELSE MaxHops]
             ELSE IF status # 200
             THEN [got EXCEPT !.done = TRUE, !.pc = "rejected", !.status = status,
                              !.error = "http", !.errStatus = status]
             ELSE IF streamOk
             THEN [got EXCEPT !.done = TRUE, !.pc = "resolved", !.status = status,
                              !.sent = sent, !.body = sent]
             ELSE [got EXCEPT !.done = TRUE, !.pc = "rejected", !.status = status,
                              !.error = "stream"]
    /\ UNCHANGED <<schema, table, lastLoad, run>>

\* request.on('error', reject)
RequestError ==
    /\ Fetching
    /\ calc' = [calc EXCEPT !.done = TRUE, !.pc = "rejected", !.error = "network"]
    /\ UNCHANGED <<schema, table, lastLoad, run>>

\* request.on('timeout'): request.destroy() and reject(new Error('下載超時'))
RequestTimeout ==
    /\ Fetching
    /\ calc' = [calc EXCEPT !.done = TRUE, !.pc = "rejected", !.error = "timeout"]
    /\ UNCHANGED <<schema, table, lastLoad, run>>

FetchNext ==
    \/ \E status \in Statuses, location \in URLs \cup {NoLocation},
          sent \in FetchBodies, streamOk \in BOOLEAN :
          Respond(status, location, sent, streamOk)
    \/ RequestError
    \/ RequestTimeout

FetchSpec == FetchInit /\ [][FetchNext]_vars

\* every request is answered, fails or times out
FairFetchSpec == FetchSpec /\ WF_vars(FetchNext)

(***************************************************************************)
(* Properties                                                              *)
(***************************************************************************)
Resps(r) == [i \in 1..Len(run[r].log) |-> run[r].log[i].resp]

AllBound(batch) == \A i \in 1..Len(batch) : BoundParams \subseteq DOMAIN batch[i]

HasKey(tbl, k) == \E i \in 1..Len(tbl) : Key(tbl[i]) = k

C2_NaturalKeyUnique ==
    \A i, j \in 1..Len(table) : Key(table[i]) = Key(table[j]) => i = j

\* a load that met a colliding record has committed, and the table holds
\* two rows
C2_Witness ==
    /\ lastLoad.called /\ ~lastLoad.thrown
    /\ lastLoad.ret < Len(lastLoad.batch)
    /\ Len(table) = 2

\* C3 (first wins): after a load that did not fail, the rows persisted
\* before it are unchanged, each natural key of the batch is held by the
\* row that had it first (the earlier row of the table, else the first
\* record of the batch with that key), and a batch of two records sharing a
\* new key persists exactly the first and returns 1.
C3_FirstWins ==
    (lastLoad.called /\ ~lastLoad.thrown) =>
      LET before == lastLoad.before
          batch  == lastLoad.batch
      IN  /\ Len(table) >= Len(before)
          /\ SubSeq(table, 1, Len(before)) = before
          /\ \A i \in 1..Len(batch) :
                LET first == CHOOSE j \in 1..i :
                                 /\ Key(batch[j]) = Key(batch[i])
                                 /\ \A k \in 1..(j - 1) : Key(batch[k]) # Key(batch[i])
                IN  \E n \in 1..Len(table) :
                       /\ Key(table[n]) = Key(batch[i])
                       /\ IF HasKey(before, Key(batch[i]))
                          THEN n <= Len(before)
                          ELSE table[n] = RowOf(batch[first])
          /\ ( /\ Len(batch) = 2
               /\ Key(batch[1]) = Key(batch[2])
               /\ ~HasKey(before, Key(batch[1])) )
             => (table = Append(before, RowOf(batch[1])) /\ lastLoad.ret = 1)

\* a batch of two different records with one new natural key was loaded
C3_Witness ==
    /\ lastLoad.called /\ ~lastLoad.thrown
    /\ Len(lastLoad.batch) = 2
    /\ Key(lastLoad.batch[1]) = Key(lastLoad.batch[2])
    /\ lastLoad.batch[1] # lastLoad.batch[2]
    /\ ~HasKey(lastLoad.before, Key(lastLoad.batch[1]))

\* C4 (returned count): a load of records that bind every parameter does
\* not fail, and the value a load returns is the number of rows it added.
C4_CountIsNewlyPersisted ==
    lastLoad.called =>
      /\ AllBound(lastLoad.batch) => ~lastLoad.thrown
      /\ ~lastLoad.thrown => lastLoad.ret = Len(table) - Len(lastLoad.before)

\* a load of two records, one colliding with a persisted row, one new
C4_Witness ==
    /\ lastLoad.called /\ ~lastLoad.thrown
    /\ Len(lastLoad.batch) = 2
    /\ lastLoad.before # <<>>
    /\ lastLoad.ret = 1

\* C5 (batch atomicity): after a load that failed, the table is the table
\* before the load.
C5_FailedLoadLeavesTable ==
    (lastLoad.called /\ lastLoad.thrown) => table = lastLoad.before

\* a load failed on its second record after its first, a new one, had been
\* inserted
C5_Witness ==
    /\ lastLoad.called /\ lastLoad.thrown
    /\ Len(lastLoad.batch) = 2
    /\ BoundParams \subseteq DOMAIN lastLoad.batch[1]
    /\ ~HasKey(lastLoad.before, Key(lastLoad.batch[1]))
    /\ ~(BoundParams \subseteq DOMAIN lastLoad.batch[2])

\* C6 (region isolation), as claimed: the total a run returns is the sum,
\* over the regions whose download, parse and save succeeded, of the number
\* of valid new rows of the region.
C6_TotalIsSumOfNewRows ==
    \A r \in Runs : run[r].pc = "done" => run[r].total = run[r].expected

\* C7 (only initDatabase is fatal): a run that ended in an error retrieved
\* no region, and while the schema cannot be initialised no run gets past
\* its start; a failure of any later step leaves the run on its way to its
\* count.
C7_OnlyInitIsFatal ==
    \A r \in Runs :
        /\ run[r].pc = "failed" => (run[r].calls = <<>> /\ run[r].log = <<>>)
        /\ schema # "new" => run[r].pc \in {"idle", "failed"}

\* a first run returned its count although a download failed, the file of
\* a region could not be saved and a load failed; a second run ended in
\* the error of initDatabase
C7_Witness ==
    /\ run[1].pc = "done"
    /\ \E i \in 1..Len(run[1].log) : run[1].log[i].resp = "fail"
    /\ \E i \in 1..Len(run[1].log) : run[1].log[i].resp = "P1"
    /\ run[2].pc = "failed"

\* the regions crawlCity was called for are the catalog's, in its order,
\* each once, and a run that returned went through all of them
C8_CatalogOrder ==
    \A r \in Runs :
        /\ Len(run[r].calls) <= Len(CITIES)
        /\ \A i \in 1..Len(run[r].calls) : run[r].calls[i] = CITIES[i].code
        /\ run[r].pc = "done" => Len(run[r].calls) = Len(CITIES)

\* C8 (whole catalog, once, in order, to completion), as claimed: the
\* order holds throughout and a run that is past initDatabase eventually
\* returns its total.
C8_WholeCatalogAndReturns ==
    /\ []C8_CatalogOrder
    /\ (run[1].pc = "fetching") ~> (run[1].pc = "done")

\* C9 (validity gate): every record passed to insertTransactionsBatch by
\* crawlCity has a non-empty transaction_date and a total_price above 0.
C9_ValidityGate ==
    \A r \in Runs : \A i \in 1..Len(run[r].passed) :
        /\ run[r].passed[i].transaction_date # Empty
        /\ run[r].passed[i].total_price > 0

\* a region answered with rows of price 0 among valid ones and the valid
\* ones were passed on
C9_Witness ==
    /\ run[1].log # <<>>
    /\ run[1].log[Len(run[1].log)].resp = "P1"
    /\ Len(run[1].passed) = 2

\* C10 (no update, no delete): every step keeps every row of the table, in
\* place and unchanged.
C10_TableOnlyGrows ==
    [][Len(table') >= Len(table) /\ SubSeq(table', 1, Len(table)) = table]_vars

\* two rows were loaded and a run, one of whose loads failed, has returned
\* since
C10_Witness ==
    /\ Len(table) = 2
    /\ run[1].pc = "done"
    /\ \E i \in 1..Len(run[1].log) : run[1].log[i].resp = "P1"

Normalized == calc.fn = "normalize" /\ calc.done

\* C11 (district prefix): the district of a normalised record starts with
\* the region's display name; it is the extracted district itself when
\* that already starts with the name, the name followed by the extracted
\* district otherwise, and the name alone when nothing was extracted.
C11_DistrictPrefix ==
    Normalized =>
        LET name      == calc.arg.cityName
            extracted == getDistrict(calc.arg.row)
            district  == calc.res.district
        IN  /\ Len(district) >= Len(name)
            /\ SubSeq(district, 1, Len(name)) = name
            /\ (Len(extracted) >= Len(name) /\ SubSeq(extracted, 1, Len(name)) = name)
                  => district = extracted
            /\ extracted = Empty => district = name

\* a row whose district column already starts with the display name of
\* its region has been normalised
C11_Witness ==
    /\ Normalized
    /\ getDistrict(calc.arg.row) = calc.arg.cityName \o <<"Bei", "Qu">>
    /\ calc.res.district = calc.arg.cityName \o <<"Bei", "Qu">>

Converted == calc.fn = "convertDate" /\ calc.done

Abs(n) == IF n < 0 THEN 0 - n ELSE n

PinDone == calc.fn = "toPin" /\ calc.done

\* the number an argument of toPin stands for
PinValue == IF calc.arg.isString THEN parseFloat(calc.arg.text) ELSE calc.arg.number

UnitText ==
    LET row == calc.arg.row
    IN  IF ColUnit \in DOMAIN row /\ row[ColUnit] # Empty THEN row[ColUnit]
        ELSE IF ColUnit2 \in DOMAIN row THEN row[ColUnit2]
        ELSE Empty

\* a text that is an integer: an optional "-", then digits only
UnitDigits == IF UnitText # Empty /\ UnitText[1] = "-" THEN Tail(UnitText) ELSE UnitText

UnitIsInteger == UnitDigits # Empty /\ \A i \in 1..Len(UnitDigits) : IsDigit(UnitDigits[i])

UnitInteger ==
    IF UnitText[1] = "-" THEN 0 - ParseDigits(UnitDigits) ELSE ParseDigits(UnitDigits)

DateDigits == SelectSeq(calc.arg, LAMBDA c : c \in {"0", "1", "2", "3", "4", "5", "6", "7", "8", "9"})

ReadGregorian ==
    /\ Len(DateDigits) = 8
    /\ SubSeq(DateDigits, 1, 2) \in { <<"1", "9">>, <<"2", "0">> }

ReadYear ==
    IF ReadGregorian THEN ParseDigits(SubSeq(DateDigits, 1, 4))
    ELSE ParseDigits(SubSeq(DateDigits, 1, Len(DateDigits) - 4)) + 1911

ReadMonth == SubSeq(DateDigits, Len(DateDigits) - 3, Len(DateDigits) - 2)

ReadDay == SubSeq(DateDigits, Len(DateDigits) - 1, Len(DateDigits))

ReadInRange ==
    /\ Len(DateDigits) >= 5
    /\ ReadYear >= 1911 /\ ReadYear <= 2100
    /\ ParseDigits(ReadMonth) >= 1 /\ ParseDigits(ReadMonth) <= 12
    /\ ParseDigits(ReadDay) >= 1 /\ ParseDigits(ReadDay) <= 31

\* C12 (table entry "990101"), as claimed: the raw date "990101" converts
\* to "2001-01-01".
C12_Entry990101Is2001 ==
    (Converted /\ calc.arg = <<"9", "9", "0", "1", "0", "1">>)
        => calc.res = <<"2", "0", "0", "1", "-", "0", "1", "-", "0", "1">>

\* C12, amended: the raw date "990101" (local year 99) converts to
\* "2010-01-01".
C12_Entry990101Is2010 ==
    (Converted /\ calc.arg = <<"9", "9", "0", "1", "0", "1">>)
        => calc.res = <<"2", "0", "1", "0", "-", "0", "1", "-", "0", "1">>

\* "990101" has been converted
C12_Witness ==
    Converted /\ calc.arg = <<"9", "9", "0", "1", "0", "1">> /\ calc.res # Empty

\* C13 (conversion rule): a raw date with at least 5 digits is read, after
\* its non-digits are dropped, as Gregorian YYYYMMDD when it has exactly 8
\* digits and starts with 19 or 20, and otherwise as a local year (all but
\* the last 4 digits) followed by MMDD; a result is that reading written
\* YYYY-MM-DD with the local year raised by 1911, and a reading within the
\* accepted ranges has a result ("1140115" and "20250115" both give
\* "2025-01-15").
C13_ConversionRule ==
    (Converted /\ Len(DateDigits) >= 5) =>
        /\ ReadInRange => calc.res # Empty
        /\ calc.res # Empty =>
              calc.res = ToDigits(ReadYear) \o <<"-">> \o ReadMonth \o <<"-">> \o ReadDay
        /\ calc.arg \in { <<"1", "1", "4", "0", "1", "1", "5">>,
                          <<"2", "0", "2", "5", "0", "1", "1", "5">> }
              => calc.res = <<"2", "0", "2", "5", "-", "0", "1", "-", "1", "5">>

\* an 8-digit Gregorian date, written with separators, has been converted
C13_Witness ==
    /\ Converted /\ ReadGregorian /\ calc.arg # DateDigits
    /\ calc.res = <<"2", "0", "2", "5", "-", "0", "1", "-", "1", "5">>

IsTwoDigits(s) == Len(s) = 2 /\ IsDigit(s[1]) /\ IsDigit(s[2])

\* C14 (rejection): the result is empty whenever the raw date has fewer
\* than 5 digits, or its month is outside 1..12, its day outside 1..31 or
\* its Gregorian year outside 1911..2100; and a result that is not empty is
\* a 4-digit year in 1911..2100, "-", a 2-digit month in 01..12, "-", and a
\* 2-digit day in 01..31.
C14_Rejection ==
    Converted =>
        /\ ~ReadInRange => calc.res = Empty
        /\ calc.res # Empty =>
              /\ Len(calc.res) = 10
              /\ calc.res[5] = "-" /\ calc.res[8] = "-"
              /\ \A i \in 1..4 : IsDigit(calc.res[i])
              /\ ParseDigits(SubSeq(calc.res, 1, 4)) \in 1911..2100
              /\ IsTwoDigits(SubSeq(calc.res, 6, 7))
              /\ ParseDigits(SubSeq(calc.res, 6, 7)) \in 1..12
              /\ IsTwoDigits(SubSeq(calc.res, 9, 10))
              /\ ParseDigits(SubSeq(calc.res, 9, 10)) \in 1..31

\* a raw date of 7 digits whose month is 13 has been rejected
C14_Witness ==
    /\ Converted /\ Len(DateDigits) = 7
    /\ ReadMonth = <<"1", "3">> /\ ParseDigits(ReadDay) \in 1..31
    /\ calc.res = Empty

Resolved == calc.fn = "targetSeason" /\ calc.done

\* the period derived from the current date: the quarter before the one
\* the date lies in
DerivedPeriod ==
    LET m == calc.now.month
        y == calc.now.year - 1911
    IN  CASE m \in 1..3   -> ToDigits(y - 1) \o <<"S", "4">>
          [] m \in 4..6   -> ToDigits(y) \o <<"S", "1">>
          [] m \in 7..9   -> ToDigits(y) \o <<"S", "2">>
          [] m \in 10..12 -> ToDigits(y) \o <<"S", "3">>

\* C17 (derived period): with no period, no year and no quarter given, the
\* period of a date in year Y and month m is (Y-1912)S4 for m in 1..3,
\* (Y-1911)S1 for 4..6, (Y-1911)S2 for 7..9 and (Y-1911)S3 for 10..12.
C17_DerivedPeriod ==
    ( /\ Resolved
      /\ calc.arg.season = Empty /\ calc.arg.rocYear = 0 /\ calc.arg.quarter = 0 )
    => calc.res = DerivedPeriod

\* a run without arguments in February 2025 resolved to 113S4
C17_Witness ==
    /\ Resolved
    /\ calc.arg.season = Empty /\ calc.arg.rocYear = 0 /\ calc.arg.quarter = 0
    /\ calc.now = [year |-> 2025, month |-> 2]
    /\ calc.res = <<"1", "1", "3", "S", "4">>

\* C18 (period validation): without a period string, a year in 1..200 with
\* a quarter in 1..4 resolves to {year}S{quarter}, and every other pair
\* (out of range, or one of the two missing) resolves to the period
\* derived from the current date.
C18_PeriodValidation ==
    (Resolved /\ calc.arg.season = Empty) =>
        IF calc.arg.rocYear \in 1..200 /\ calc.arg.quarter \in 1..4
        THEN calc.res = ToDigits(calc.arg.rocYear) \o <<"S">> \o ToDigits(calc.arg.quarter)
        ELSE calc.res = DerivedPeriod

\* year 201 with quarter 1 resolved to the derived period
C18_Witness ==
    /\ Resolved /\ calc.arg.season = Empty
    /\ calc.arg.rocYear = 201 /\ calc.arg.quarter = 1
    /\ calc.res = DerivedPeriod

\* C19 (form of the period), as claimed: whatever the trigger is given, the
\* period used for the run is digits, "S" and a quarter from 1 to 4.
C19_PeriodForm ==
    Resolved =>
        LET n == Len(calc.res)
        IN  /\ n >= 3
            /\ \A i \in 1..(n - 2) : IsDigit(calc.res[i])
            /\ calc.res[n - 1] = "S"
            /\ calc.res[n] \in {"1", "2", "3", "4"}

\* C20 (outcome by status), as claimed: a download whose final response
\* has a 2xx status returns the whole body of that response, and a download
\* whose final response has any other status fails with an error that
\* carries the status.
C20_OutcomeByStatus ==
    (calc.fn = "downloadCSV" /\ calc.done /\ calc.error \in {"none", "http"}) =>
        IF calc.status \in 200..299
        THEN calc.pc = "resolved" /\ calc.body = calc.sent
        ELSE calc.pc = "rejected" /\ calc.errStatus = calc.status

\* C22 (sequential, throttled): in a run at most one region is in process;
\* the pause starts only when the region in process has finished, by its
\* load or by its failure; and the retrieve of a further region starts
\* only from the pause, for the region after the one that finished.
C22_SequentialThrottled ==
    [][\A r \in Runs :
          /\ Len(run'[r].calls) - Len(run'[r].log) \in {0, 1}
          /\ run'[r].pc = "sleeping" => Len(run'[r].log) = Len(run'[r].calls)
          /\ (Len(run'[r].calls) > Len(run[r].calls) /\ Len(run'[r].calls) >= 2) =>
                /\ run[r].pc = "sleeping"
                /\ Len(run[r].log) = Len(run[r].calls)
                /\ run'[r].calls = Append(run[r].calls, CITIES[Len(run[r].calls) + 1].code)]_vars

\* the retrieve of the second region is out after the first region failed
C22_Witness ==
    /\ run[1].pc = "fetching"
    /\ Len(run[1].calls) = 2
    /\ Len(run[1].log) = 1 /\ run[1].log[1].resp = "fail"

\* C23 (parse failure): for a body that the CSV parser cannot parse,
\* parseCSV returns no rows and raises nothing (the catch block of
\* crawlCity does not run); crawlCity returns 0 for the region without
\* calling insertTransactionsBatch, and the run goes on to the pause and
\* the next region.
C23_ParseFailureIsEmpty ==
    \A r \in Runs :
        LET n == Len(run[r].log)
        IN  (n > 0 /\ run[r].log[n].resp = "PX") =>
                /\ ~run[r].last.caught
                /\ run[r].last.ret = 0
                /\ ~run[r].last.called
                /\ run[r].pc # "failed"
                /\ run[r].next = n + 1
                /\ n < Len(run[r].calls) => run[r].calls[n + 1] = CITIES[n + 1].code

\* the body of the first region could not be parsed and the retrieve of
\* the second region is out
C23_Witness ==
    /\ run[1].pc = "fetching"
    /\ Len(run[1].log) = 1 /\ run[1].log[1].resp = "PX"
    /\ run[1].calls = <<CITIES[1].code, CITIES[2].code>>

Extracted == calc.fn = "getDistrict" /\ calc.done

\* the district column and the location field of the row, as the
\* extraction reads them: without the white space around them, the
\* location under the first of its two headers that is not empty
DirectText == TrimRight(TrimLeft(IF ColDistrict \in DOMAIN calc.arg
                                 THEN calc.arg[ColDistrict] ELSE Empty))

LocationText ==
    TrimRight(TrimLeft(
        IF ColLocation2 \in DOMAIN calc.arg /\ calc.arg[ColLocation2] # Empty
        THEN calc.arg[ColLocation2]
        ELSE IF ColLocation \in DOMAIN calc.arg THEN calc.arg[ColLocation]
        ELSE Empty))

IsChild(s, i, j) ==
    /\ i \in 1..Len(s) /\ j \in (i + 2)..Len(s)
    /\ s[i] \in {"Shi", "Xian"}
    /\ s[j] \in {"Qu", "Shi", "Zhen", "Xiang"}

IsSuffixed(s, j) == j \in 2..Len(s) /\ s[j] \in {"Qu", "Shi", "Zhen", "Xiang"}

\* C25 (district extraction order): a district column that is not empty
\* (white space aside) is the district, whatever the location holds.
\* Otherwise the district comes from the location: when a city or county
\* mark is followed by a unit that ends in a district suffix, it is the
\* unit after the first such mark, up to its first suffix; failing that,
\* the text up to the first district suffix; and it is empty when the
\* location has neither.
C25_ExtractionOrder ==
    Extracted =>
        LET loc == LocationText
        IN  IF DirectText # Empty THEN calc.res = DirectText
            ELSE IF \E i, j \in 1..Len(loc) : IsChild(loc, i, j)
            THEN \E i, j \in 1..Len(loc) :
                    /\ IsChild(loc, i, j)
                    /\ \A i2, j2 \in 1..Len(loc) :
                          IsChild(loc, i2, j2) => (i <= i2 /\ (i2 = i => j <= j2))
                    /\ calc.res = SubSeq(loc, i + 1, j)
            ELSE IF \E j \in 1..Len(loc) : IsSuffixed(loc, j)
            THEN \E j \in 1..Len(loc) :
                    /\ IsSuffixed(loc, j)
                    /\ \A j2 \in 1..Len(loc) : IsSuffixed(loc, j2) => j <= j2
                    /\ calc.res = SubSeq(loc, 1, j)
            ELSE calc.res = Empty

\* a row without a district column whose location names the city and then
\* the district gave the district
C25_Witness ==
    /\ Extracted
    /\ DirectText = Empty
    /\ LocationText = <<"Tai", "Zhong", "Shi", "Bei", "Qu", "Lu", "2">>
    /\ calc.res = <<"Bei", "Qu">>

\* C24 (column-name flexibility), as claimed: every field the map callback
\* takes from a raw row is looked up under at least two headers, and is
\* made from the value of the first of them that is present and not empty.
C24_ColumnFlexibility ==
    Normalized =>
        \A f \in DOMAIN Headers :
            /\ Len(Headers[f]) >= 2
            /\ \A i \in 1..Len(Headers[f]) :
                  ( /\ Truthy(Get(calc.arg.row, Headers[f][i]))
                    /\ \A j \in 1..(i - 1) : ~Truthy(Get(calc.arg.row, Headers[f][j])) )
                  => Lookup(calc.arg.row, Headers[f]) = calc.arg.row[Headers[f][i]]

\* C26 (records supply every parameter), as claimed: every record that
\* crawlCity passes to insertTransactionsBatch holds a value for every
\* named parameter of the INSERT statement, project_name among them, and
\* the load of a batch that is not empty does not end in the catch block.
C26_RecordsSupplyEveryParameter ==
    \A r \in Runs :
        /\ \A i \in 1..Len(run[r].passed) : BoundParams \subseteq DOMAIN run[r].passed[i]
        /\ (run[r].last.called /\ run[r].passed # <<>>) => ~run[r].last.caught

C29_AreaNeverZero ==
    PinDone => (calc.res.null \/ calc.res.val > 0)

IsLeapYear(y) == (y % 4 = 0 /\ y % 100 # 0) \/ y % 400 = 0

\* the number of days of month m of year y in the Gregorian calendar
DaysInMonth(y, m) ==
    IF m = 2 THEN (IF IsLeapYear(y) THEN 29 ELSE 28)
    ELSE IF m \in {4, 6, 9, 11} THEN 30
    ELSE 31

\* C30 (calendar-valid day), as claimed: the day of a result of convertDate
\* that is not empty is at most the number of days of its month in its
\* year.
C30_DayExists ==
    (Converted /\ calc.res # Empty) =>
        ParseDigits(SubSeq(calc.res, 9, 10))
            <= DaysInMonth(ParseDigits(SubSeq(calc.res, 1, 4)),
                           ParseDigits(SubSeq(calc.res, 6, 7)))

\* the statuses by which a server sends the client to another URL
RedirectStatuses == {301, 302, 303, 307, 308}

\* C21 (redirect following), as claimed: after a response with a redirect
\* status and a Location target the call is still pending and its request
\* is out against that target, so that the call ends as the request
\* against the last target ends.
C21_RedirectFollowed ==
    ( /\ calc.fn = "downloadCSV"
      /\ calc.resp.status \in RedirectStatuses
      /\ calc.resp.location # NoLocation )
    => (calc.pc = "pending" /\ calc.url = calc.resp.location)

\* C28 (retriever termination), as claimed: every call of downloadCSV
\* eventually settles, resolved or rejected.
C28_EventuallySettles ==
    (calc.fn = "downloadCSV") ~> (calc.pc \in {"resolved", "rejected"})

=============================================================================
